---- MODULE Spec2Model ----
(***************************************************************************)
(* Model of src/utils/unixResourceLimiter.py: set_limits_and_exec().       *)
(*                                                                         *)
(* One process, one run.  The process record `proc` holds the Python       *)
(* locals, os.environ, the two resource limits, what was written to        *)
(* sys.stderr and how the run ended.  `pc` is the position in the function *)
(* body; each action is one statement group of the source.                 *)
(*                                                                         *)
(* Strings are sequences of one-character strings, so that int() and       *)
(* json.loads() are computed on the text as CPython computes them.         *)
(***************************************************************************)
EXTENDS Integers, Sequences, FiniteSets, TLC

VARIABLES proc, start, events

vars == <<proc, start, events>>

\* Largest number rendered into the limit variables' decimal strings.
MaxN == 2

\* ------------------------------------------------------------------------
\* Text helpers
\* ------------------------------------------------------------------------

DigitChars == <<"0", "1", "2", "3", "4", "5", "6", "7", "8", "9">>

IsDigit(c) == \E i \in 1..10 : DigitChars[i] = c

DigitVal(c) == (CHOOSE i \in 1..10 : DigitChars[i] = c) - 1

IsSpace(c) == c = " "

\* str(n) for n >= 0
RECURSIVE ToStr(_)
ToStr(n) == IF n < 10 THEN <<DigitChars[n + 1]>>
            ELSE ToStr(n \div 10) \o <<DigitChars[(n % 10) + 1]>>

\* s.strip()
RECURSIVE LStrip(_)
LStrip(s) == IF s # <<>> /\ IsSpace(Head(s)) THEN LStrip(Tail(s)) ELSE s

RECURSIVE RStrip(_)
RStrip(s) == IF s # <<>> /\ IsSpace(s[Len(s)])
             THEN RStrip(SubSeq(s, 1, Len(s) - 1)) ELSE s

Strip(s) == RStrip(LStrip(s))

\* The digits part of an int() literal: digits, single underscores allowed
\* between digits only.
DigitsOk(d) ==
    /\ d # <<>>
    /\ \A i \in 1..Len(d) : IsDigit(d[i]) \/ d[i] = "_"
    /\ IsDigit(d[1]) /\ IsDigit(d[Len(d)])
    /\ \A i \in 1..(Len(d) - 1) : ~(d[i] = "_" /\ d[i + 1] = "_")

RECURSIVE DigitsValue(_, _)
DigitsValue(d, acc) ==
    IF d = <<>> THEN acc
    ELSE IF Head(d) = "_" THEN DigitsValue(Tail(d), acc)
    ELSE DigitsValue(Tail(d), acc * 10 + DigitVal(Head(d)))

\* int(s) for a str s, base 10: [ok |-> FALSE] stands for ValueError.
int(s) ==
    LET t == Strip(s)
        signed == t # <<>> /\ Head(t) \in {"+", "-"}
        d == IF signed THEN Tail(t) ELSE t
    IN  IF DigitsOk(d)
        THEN [ok |-> TRUE,
              val |-> IF signed /\ Head(t) = "-" THEN 0 - DigitsValue(d, 0)
                      ELSE DigitsValue(d, 0)]
        ELSE [ok |-> FALSE, val |-> 0]

\* ------------------------------------------------------------------------
\* Python values
\* ------------------------------------------------------------------------

PyVal(ty, s, n, items) == [ty |-> ty, s |-> s, n |-> n, items |-> items]

PyNone == PyVal("NoneType", <<>>, 0, <<>>)
PyStr(cs) == PyVal("str", cs, 0, <<>>)
PyInt(n) == PyVal("int", <<>>, n, <<>>)
PyFloat == PyVal("float", <<>>, 0, <<>>)
PyBool(b) == PyVal("bool", <<>>, IF b THEN 1 ELSE 0, <<>>)
PyList(items) == PyVal("list", <<>>, 0, items)
\* A dict decoded from JSON has str keys only; the values are kept in order.
PyDict(items) == PyVal("dict", <<>>, 0, items)

\* A local name that has not been assigned yet.
Unbound == PyVal("unbound", <<>>, 0, <<>>)

\* bool(x) for x a str or None, as the `if x:` / `if not x:` tests use it.
Truthy(x) == x.ty = "str" /\ x.s # <<>>

\* The exception classes the function can meet, each with its base classes.
Bases(exc) ==
    CASE exc = "JSONDecodeError" -> {"JSONDecodeError", "ValueError", "Exception"}
      [] exc = "ValueError" -> {"ValueError", "Exception"}
      [] exc = "OverflowError" -> {"OverflowError", "ArithmeticError", "Exception"}
      [] exc = "TypeError" -> {"TypeError", "Exception"}
      [] exc = "IndexError" -> {"IndexError", "LookupError", "Exception"}
      [] exc = "KeyError" -> {"KeyError", "LookupError", "Exception"}
      [] exc = "FileNotFoundError" -> {"FileNotFoundError", "OSError", "Exception"}
      [] exc = "PermissionError" -> {"PermissionError", "OSError", "Exception"}
      [] exc = "NotADirectoryError" -> {"NotADirectoryError", "OSError", "Exception"}
      [] exc = "OSError" -> {"OSError", "Exception"}
      [] OTHER -> {exc}

\* `except cls:` catches exc
Catches(cls, exc) == exc # "" /\ cls \in Bases(exc)

\* ------------------------------------------------------------------------
\* json.loads
\* ------------------------------------------------------------------------

\* Result of a scan: ok, the value, and the index just past it.
Scanned(val, end) == [ok |-> TRUE, val |-> val, end |-> end]
ScanFail == [ok |-> FALSE, val |-> PyNone, end |-> 0]

RECURSIVE SkipWs(_, _)
SkipWs(s, i) == IF i <= Len(s) /\ IsSpace(s[i]) THEN SkipWs(s, i + 1) ELSE i

StartsWith(s, i, lit) ==
    /\ i + Len(lit) - 1 <= Len(s)
    /\ SubSeq(s, i, i + Len(lit) - 1) = lit

\* Index of the closing quote of the string whose first character is at i,
\* or 0 if the string is unterminated.  (Inputs carry no backslash escapes.)
RECURSIVE ClosingQuote(_, _)
ClosingQuote(s, i) ==
    IF i > Len(s) THEN 0
    ELSE IF s[i] = "\"" THEN i
    ELSE ClosingQuote(s, i + 1)

ScanString(s, i) ==
    LET q == ClosingQuote(s, i)
    IN  IF q = 0 THEN ScanFail
        ELSE Scanned(PyStr(SubSeq(s, i, q - 1)), q + 1)

\* End of the run of digits that starts at i (i itself if there is none).
RECURSIVE DigitsEnd(_, _)
DigitsEnd(s, i) == IF i <= Len(s) /\ IsDigit(s[i]) THEN DigitsEnd(s, i + 1) ELSE i

\* NUMBER_RE: -?(0|[1-9][0-9]*)(\.[0-9]+)?  (exponents are not in the inputs)
ScanNumber(s, i) ==
    LET neg == i <= Len(s) /\ s[i] = "-"
        a == IF neg THEN i + 1 ELSE i
        b == IF a <= Len(s) /\ s[a] = "0" THEN a + 1 ELSE DigitsEnd(s, a)
        frac == b + 1 <= Len(s) /\ s[b] = "." /\ IsDigit(s[b + 1])
    IN  IF b = a THEN ScanFail
        ELSE IF frac THEN Scanned(PyFloat, DigitsEnd(s, b + 1))
        ELSE Scanned(PyInt(IF neg THEN 0 - DigitsValue(SubSeq(s, a, b - 1), 0)
                           ELSE DigitsValue(SubSeq(s, a, b - 1), 0)), b)

RECURSIVE ScanOnce(_, _)
RECURSIVE ParseArray(_, _, _)
RECURSIVE ParseObject(_, _, _)

\* i is where the next element of the array must start
ParseArray(s, i, acc) ==
    LET r == ScanOnce(s, i)
        j == SkipWs(s, r.end)
    IN  IF ~r.ok \/ j > Len(s) THEN ScanFail
        ELSE IF s[j] = "]" THEN Scanned(PyList(Append(acc, r.val)), j + 1)
        ELSE IF s[j] = "," THEN ParseArray(s, SkipWs(s, j + 1), Append(acc, r.val))
        ELSE ScanFail

\* i is where the next property name must start
ParseObject(s, i, acc) ==
    IF i > Len(s) \/ s[i] # "\"" THEN ScanFail
    ELSE LET k == ScanString(s, i + 1)
             c == SkipWs(s, k.end)
         IN  IF ~k.ok \/ c > Len(s) \/ s[c] # ":" THEN ScanFail
             ELSE LET v == ScanOnce(s, SkipWs(s, c + 1))
                      j == SkipWs(s, v.end)
                  IN  IF ~v.ok \/ j > Len(s) THEN ScanFail
                      ELSE IF s[j] = "}"
                           THEN Scanned(PyDict(Append(acc, v.val)), j + 1)
                      ELSE IF s[j] = ","
                           THEN ParseObject(s, SkipWs(s, j + 1), Append(acc, v.val))
                      ELSE ScanFail

\* json.scanner.py_make_scanner._scan_once
ScanOnce(s, i) ==
    IF i > Len(s) THEN ScanFail
    ELSE IF s[i] = "\"" THEN ScanString(s, i + 1)
    ELSE IF s[i] = "{"
         THEN LET j == SkipWs(s, i + 1)
              IN  IF j <= Len(s) /\ s[j] = "}" THEN Scanned(PyDict(<<>>), j + 1)
                  ELSE ParseObject(s, j, <<>>)
    ELSE IF s[i] = "["
         THEN LET j == SkipWs(s, i + 1)
              IN  IF j <= Len(s) /\ s[j] = "]" THEN Scanned(PyList(<<>>), j + 1)
                  ELSE ParseArray(s, j, <<>>)
    ELSE IF StartsWith(s, i, <<"n", "u", "l", "l">>) THEN Scanned(PyNone, i + 4)
    ELSE IF StartsWith(s, i, <<"t", "r", "u", "e">>) THEN Scanned(PyBool(TRUE), i + 4)
    ELSE IF StartsWith(s, i, <<"f", "a", "l", "s", "e">>)
         THEN Scanned(PyBool(FALSE), i + 5)
    ELSE IF ScanNumber(s, i).ok THEN ScanNumber(s, i)
    ELSE IF StartsWith(s, i, <<"N", "a", "N">>) THEN Scanned(PyFloat, i + 3)
    ELSE ScanFail

\* json.loads(s): the decoded value, or the exception raised.
json_loads(s) ==
    LET r == ScanOnce(s, SkipWs(s, 1))
    IN  IF ~r.ok \/ SkipWs(s, r.end) <= Len(s)
        THEN [exc |-> "JSONDecodeError", val |-> PyNone]
        ELSE [exc |-> "", val |-> r.val]

\* x[0]: the element, or the exception raised.
GetItem0(x) ==
    CASE x.ty = "list" -> IF x.items = <<>> THEN [exc |-> "IndexError", val |-> PyNone]
                          ELSE [exc |-> "", val |-> x.items[1]]
      [] x.ty = "str" -> IF x.s = <<>> THEN [exc |-> "IndexError", val |-> PyNone]
                         ELSE [exc |-> "", val |-> PyStr(<<x.s[1]>>)]
      [] x.ty = "dict" -> [exc |-> "KeyError", val |-> PyNone]
      [] OTHER -> [exc |-> "TypeError", val |-> PyNone]

\* ------------------------------------------------------------------------
\* The process: environment, resource limits, inputs
\* ------------------------------------------------------------------------

MEMORY_LIMIT_MB == "STONEBOX_MEMORY_LIMIT_MB"
PROCESS_LIMIT == "STONEBOX_PROCESS_LIMIT"
EXEC_ARGS == "STONEBOX_EXEC_ARGS"

StoneboxNames == {MEMORY_LIMIT_MB, PROCESS_LIMIT, EXEC_ARGS}

\* os.environ.get(name): the str, or None
environ_get(environ, name) ==
    IF name \in DOMAIN environ THEN PyStr(environ[name]) ELSE PyNone

\* del os.environ[name], guarded by `name in os.environ`
environ_del(environ, name) ==
    [k \in (DOMAIN environ) \ {name} |-> environ[k]]

\* An rlim_t holds 64 unsigned bits: <<k, v>> stands for k * 2^64 + v, so a
\* negative Python int v converts to <<1, v>>.
rlim_t(v) == IF v >= 0 THEN <<0, v>> ELSE <<1, v>>

RLIM_INFINITY == rlim_t(-1)

\* What the operating system can answer to setrlimit(): done, or the
\* exception resource.setrlimit raises (limit above the hard limit without
\* privilege, invalid argument, value that does not fit the C type).
SetrlimitResults == {"ok", "ValueError", "OSError"}

\* What the operating system can answer to execve(): the image is replaced,
\* or the exception os.execvp raises.
ExecResults == {"ok", "FileNotFoundError", "PermissionError",
                "NotADirectoryError", "OSError"}

Q == "\""

\* Values of the two limit variables.
LimitStrings ==
    {ToStr(n) : n \in 0..MaxN}
    \cup {<<"1", "2">>, <<"-", "1">>, <<"+", "2">>, <<" ", "1", " ">>,
          <<"1", "_", "0">>}
    \cup {<<>>, <<"x">>, <<"1", ".", "5">>}

\* Values of STONEBOX_EXEC_ARGS.
ExecArgsStrings ==
    { <<>>,
      <<"n", "o", "t", " ", "j">>,
      <<"[", Q, "l", "s", Q>>,
      <<"[", Q, "l", "s", Q, "]", " ", "x">>,
      <<"[", "]">>,
      <<"{", "}">>,
      <<"{", Q, "a", Q, ":", "1", "}">>,
      <<"7">>,
      <<"n", "u", "l", "l">>,
      <<"t", "r", "u", "e">>,
      <<"N", "a", "N">>,
      <<Q, "l", "s", Q>>,
      <<Q, Q>>,
      <<"[", Q, "l", "s", Q, "]">>,
      <<" ", "[", Q, "/", "x", Q, "]", " ">>,
      <<"[", Q, "l", "s", Q, ",", " ", Q, "-", "l", Q, "]">>,
      <<"[", Q, "l", "s", Q, ",", "1", "]">>,
      <<"[", "1", "]">>,
      <<"[", "[", Q, "l", "s", Q, "]", "]">>,
      <<"[", Q, Q, "]">> }

\* The variables the launcher does not consume.
OtherEnviron == [PATH |-> <<"/", "b">>]

Merge(f, g) == [k \in (DOMAIN f) \cup (DOMAIN g) |-> IF k \in DOMAIN f THEN f[k] ELSE g[k]]

Setting(name, values) == {[k \in {} |-> <<>>]} \cup {[k \in {name} |-> v] : v \in values}

Environs ==
    { Merge(Merge(m, p), Merge(a, OtherEnviron)) :
        m \in Setting(MEMORY_LIMIT_MB, LimitStrings),
        p \in Setting(PROCESS_LIMIT, LimitStrings),
        a \in Setting(EXEC_ARGS, ExecArgsStrings) }

Limit(v) == [soft |-> v, hard |-> v]

\* The limits the process is started with.
StartLimits ==
    { [rlimit_as |-> Limit(RLIM_INFINITY), rlimit_nproc |-> Limit(RLIM_INFINITY)],
      [rlimit_as |-> Limit(rlim_t(4096)), rlimit_nproc |-> Limit(rlim_t(64))] }

\* A line on sys.stderr: the fixed text, the exception formatted into it and
\* the command formatted into it.
Msg(text, exc, cmd) == [text |-> text, exc |-> exc, cmd |-> cmd]

InitProc(environ, limits) ==
    [ pc |-> "read",
      memory_limit_mb_str |-> Unbound,
      process_limit_str |-> Unbound,
      command_args_json |-> Unbound,
      command_parts |-> Unbound,
      actual_command |-> Unbound,
      actual_args |-> Unbound,
      environ |-> environ,
      rlimit_as |-> limits.rlimit_as,
      rlimit_nproc |-> limits.rlimit_nproc,
      stderr |-> <<>>,
      outcome |-> "running",
      status |-> 0,
      uncaught |-> "",
      exec_called |-> FALSE,
      exec_result |-> "none" ]

\* sys.exit(code)
SysExit(s, code) == [s EXCEPT !.outcome = "exit", !.status = code, !.pc = "done"]

\* An exception no handler catches: the interpreter prints the traceback and
\* exits with status 1.
Uncaught(s, exc) ==
    [s EXCEPT !.outcome = "exit", !.status = 1, !.uncaught = exc, !.pc = "done",
              !.stderr = Append(@, Msg("Traceback", exc, PyNone))]

\* ------------------------------------------------------------------------
\* set_limits_and_exec(), statement group by statement group.  Each step maps
\* the process record to the record after the step; `os` is the operating
\* system's answer to the system call the step makes, if it makes one.
\* ------------------------------------------------------------------------

\* lines 7-9
ReadEnviron(s) ==
    [s EXCEPT !.memory_limit_mb_str = environ_get(s.environ, MEMORY_LIMIT_MB),
              !.process_limit_str = environ_get(s.environ, PROCESS_LIMIT),
              !.command_args_json = environ_get(s.environ, EXEC_ARGS),
              !.pc = "memory"]

\* SetMemoryLimit without the try/except: a failure to set the limit ends the run.
SetMemoryLimitFatal(s, os) ==
    IF ~Truthy(s.memory_limit_mb_str) THEN [s EXCEPT !.pc = "process"]
    ELSE LET parsed == int(s.memory_limit_mb_str.s)
             memory_limit_bytes == parsed.val * 1024 * 1024
             exc == IF ~parsed.ok THEN "ValueError"
                    ELSE IF os # "ok" THEN os ELSE ""
         IN  IF exc = ""
             THEN [s EXCEPT !.rlimit_as = [soft |-> rlim_t(memory_limit_bytes),
                                            hard |-> rlim_t(memory_limit_bytes)],
                            !.pc = "process"]
             ELSE Uncaught(s, exc)

\* SetMemoryLimit taking the value for kilobytes.
SetMemoryLimitKiB(s, os) ==
    IF ~Truthy(s.memory_limit_mb_str) THEN [s EXCEPT !.pc = "process"]
    ELSE LET parsed == int(s.memory_limit_mb_str.s)
             memory_limit_bytes == parsed.val * 1024
             exc == IF ~parsed.ok THEN "ValueError"
                    ELSE IF os # "ok" THEN os ELSE ""
         IN  IF exc = ""
             THEN [s EXCEPT !.rlimit_as = [soft |-> rlim_t(memory_limit_bytes),
                                            hard |-> rlim_t(memory_limit_bytes)],
                            !.pc = "process"]
             ELSE IF Catches("Exception", exc)
             THEN [s EXCEPT !.stderr = Append(@, Msg("Failed to set memory limit", exc, PyNone)),
                            !.pc = "process"]
             ELSE Uncaught(s, exc)

\* lines 11-16
SetMemoryLimit(s, os) ==
    IF ~Truthy(s.memory_limit_mb_str) THEN [s EXCEPT !.pc = "process"]
    ELSE LET parsed == int(s.memory_limit_mb_str.s)
             memory_limit_bytes == parsed.val * 1024 * 1024
             exc == IF ~parsed.ok THEN "ValueError"
                    ELSE IF os # "ok" THEN os ELSE ""
         IN  IF exc = ""
             THEN [s EXCEPT !.rlimit_as = [soft |-> rlim_t(memory_limit_bytes),
                                            hard |-> rlim_t(memory_limit_bytes)],
                            !.pc = "process"]
             ELSE IF Catches("Exception", exc)
             THEN [s EXCEPT !.stderr = Append(@, Msg("Failed to set memory limit", exc, PyNone)),
                            !.pc = "process"]
             ELSE Uncaught(s, exc)

\* SetProcessLimit with the resource of the block above left in place: the
\* value lands in RLIMIT_AS.
SetProcessLimitWrongResource(s, os) ==
    IF ~Truthy(s.process_limit_str) THEN [s EXCEPT !.pc = "check"]
    ELSE LET parsed == int(s.process_limit_str.s)
             process_limit == parsed.val
             exc == IF ~parsed.ok THEN "ValueError"
                    ELSE IF os # "ok" THEN os ELSE ""
         IN  IF exc = ""
             THEN [s EXCEPT !.rlimit_as = [soft |-> rlim_t(process_limit),
                                            hard |-> rlim_t(process_limit)],
                            !.pc = "check"]
             ELSE IF Catches("Exception", exc)
             THEN [s EXCEPT !.stderr = Append(@, Msg("Failed to set process limit", exc, PyNone)),
                            !.pc = "check"]
             ELSE Uncaught(s, exc)

\* lines 18-23
SetProcessLimit(s, os) ==
    IF ~Truthy(s.process_limit_str) THEN [s EXCEPT !.pc = "check"]
    ELSE LET parsed == int(s.process_limit_str.s)
             process_limit == parsed.val
             exc == IF ~parsed.ok THEN "ValueError"
                    ELSE IF os # "ok" THEN os ELSE ""
         IN  IF exc = ""
             THEN [s EXCEPT !.rlimit_nproc = [soft |-> rlim_t(process_limit),
                                               hard |-> rlim_t(process_limit)],
                            !.pc = "check"]
             ELSE IF Catches("Exception", exc)
             THEN [s EXCEPT !.stderr = Append(@, Msg("Failed to set process limit", exc, PyNone)),
                            !.pc = "check"]
             ELSE Uncaught(s, exc)

\* CheckExecArgs testing `is None` instead of truthiness: the empty string passes.
CheckExecArgsNoneOnly(s) ==
    IF s.command_args_json.ty = "NoneType"
    THEN SysExit([s EXCEPT !.stderr = Append(@, Msg("STONEBOX_EXEC_ARGS not set.", "", PyNone))],
                 120)
    ELSE [s EXCEPT !.pc = "parse"]

\* CheckExecArgs with the three deletions moved up, ahead of the parsing.
CheckExecArgsScrubFirst(s) ==
    IF ~Truthy(s.command_args_json)
    THEN SysExit([s EXCEPT !.stderr = Append(@, Msg("STONEBOX_EXEC_ARGS not set.", "", PyNone))],
                 120)
    ELSE [s EXCEPT !.environ = environ_del(environ_del(environ_del(@, MEMORY_LIMIT_MB),
                                                       PROCESS_LIMIT),
                                           EXEC_ARGS),
                   !.pc = "parse"]

\* lines 25-27
CheckExecArgs(s) ==
    IF ~Truthy(s.command_args_json)
    THEN SysExit([s EXCEPT !.stderr = Append(@, Msg("STONEBOX_EXEC_ARGS not set.", "", PyNone))],
                 120)
    ELSE [s EXCEPT !.pc = "parse"]

\* ParseExecArgs whose handler logs and falls through instead of exiting.
ParseExecArgsNoExit(s) ==
    LET r == json_loads(s.command_args_json.s)
    IN  IF r.exc = "" THEN [s EXCEPT !.command_parts = r.val, !.pc = "index"]
        ELSE [s EXCEPT !.stderr = Append(@, Msg("Failed to parse STONEBOX_EXEC_ARGS",
                                                r.exc, PyNone)),
                       !.pc = "index"]

\* lines 29-34
ParseExecArgs(s) ==
    LET r == json_loads(s.command_args_json.s)
    IN  IF r.exc = "" THEN [s EXCEPT !.command_parts = r.val, !.pc = "index"]
        ELSE IF Catches("Exception", r.exc)
        THEN SysExit([s EXCEPT !.stderr = Append(@, Msg("Failed to parse STONEBOX_EXEC_ARGS",
                                                          r.exc, PyNone))],
                     121)
        ELSE Uncaught(s, r.exc)

\* lines 36-37
TakeCommand(s) ==
    LET r == GetItem0(s.command_parts)
    IN  IF r.exc = ""
        THEN [s EXCEPT !.actual_command = r.val, !.actual_args = s.command_parts,
                       !.pc = "scrub"]
        ELSE Uncaught(s, r.exc)

\* ScrubEnviron that forgets the third variable.
ScrubEnvironTwo(s) ==
    [s EXCEPT !.environ = environ_del(environ_del(@, MEMORY_LIMIT_MB), PROCESS_LIMIT),
              !.pc = "exec"]

\* lines 39-41
ScrubEnviron(s) ==
    [s EXCEPT !.environ = environ_del(environ_del(environ_del(@, MEMORY_LIMIT_MB),
                                                  PROCESS_LIMIT),
                                      EXEC_ARGS),
              !.pc = "exec"]

\* The exception os.execvp(file, args) raises before any system call is made
\* ("" if none): file must be a path, args a list or tuple of paths whose
\* first element is not empty.
ExecvpArgError(file, args) ==
    IF file.ty # "str" THEN "TypeError"
    ELSE IF args.ty # "list" THEN "TypeError"
    ELSE IF \E i \in 1..Len(args.items) : args.items[i].ty # "str" THEN "TypeError"
    ELSE IF args.items = <<>> \/ args.items[1].s = <<>> THEN "ValueError"
    ELSE ""

\* ExecCommand with the broad handler first: it shadows FileNotFoundError.
ExecCommandBroadFirst(s, os) ==
    LET early == ExecvpArgError(s.actual_command, s.actual_args)
        exc == IF early # "" THEN early ELSE IF os # "ok" THEN os ELSE ""
        called == [s EXCEPT !.exec_called = TRUE,
                            !.exec_result = IF early # "" THEN "none" ELSE os]
    IN  IF exc = "" THEN [called EXCEPT !.outcome = "exec", !.pc = "done"]
        ELSE IF Catches("Exception", exc)
        THEN SysExit([called EXCEPT !.stderr = Append(@, Msg("Failed to exec command", exc,
                                                              s.actual_command))],
                     126)
        ELSE IF Catches("FileNotFoundError", exc)
        THEN SysExit([called EXCEPT !.stderr = Append(@, Msg("Command not found", "",
                                                              s.actual_command))],
                     127)
        ELSE Uncaught(called, exc)

\* lines 43-50
ExecCommand(s, os) ==
    LET early == ExecvpArgError(s.actual_command, s.actual_args)
        exc == IF early # "" THEN early ELSE IF os # "ok" THEN os ELSE ""
        called == [s EXCEPT !.exec_called = TRUE,
                            !.exec_result = IF early # "" THEN "none" ELSE os]
    IN  IF exc = "" THEN [called EXCEPT !.outcome = "exec", !.pc = "done"]
        ELSE IF Catches("FileNotFoundError", exc)
        THEN SysExit([called EXCEPT !.stderr = Append(@, Msg("Command not found", "",
                                                              s.actual_command))],
                     127)
        ELSE IF Catches("Exception", exc)
        THEN SysExit([called EXCEPT !.stderr = Append(@, Msg("Failed to exec command", exc,
                                                              s.actual_command))],
                     126)
        ELSE Uncaught(called, exc)

\* One statement group, chosen by the position in the function body.
Advance(s, rlimit_os, exec_os) ==
    CASE s.pc = "read" -> ReadEnviron(s)
      [] s.pc = "memory" -> SetMemoryLimit(s, rlimit_os)
      [] s.pc = "process" -> SetProcessLimit(s, rlimit_os)
      [] s.pc = "check" -> CheckExecArgs(s)
      [] s.pc = "parse" -> ParseExecArgs(s)
      [] s.pc = "index" -> TakeCommand(s)
      [] s.pc = "scrub" -> ScrubEnviron(s)
      [] s.pc = "exec" -> ExecCommand(s, exec_os)
      [] OTHER -> s

\* The whole call, from s to the end of the run.
RECURSIVE set_limits_and_exec(_, _, _)
set_limits_and_exec(s, rlimit_os, exec_os) ==
    IF s.pc = "done" THEN s
    ELSE set_limits_and_exec(Advance(s, rlimit_os, exec_os), rlimit_os, exec_os)

\* ------------------------------------------------------------------------
\* The state machine
\* ------------------------------------------------------------------------

\* What an observer of the process sees a step do, in the order it does it.
Observed(s, t) ==
    (IF t.rlimit_as # s.rlimit_as THEN <<"rlimit_as">> ELSE <<>>)
    \o (IF t.rlimit_nproc # s.rlimit_nproc THEN <<"rlimit_nproc">> ELSE <<>>)
    \o (IF t.command_parts # s.command_parts THEN <<"parse">> ELSE <<>>)
    \o (IF t.environ # s.environ THEN <<"environ">> ELSE <<>>)
    \o (IF t.exec_called # s.exec_called THEN <<"exec">> ELSE <<>>)
    \o (IF t.outcome = "exit" /\ s.outcome # "exit" THEN <<"exit">> ELSE <<>>)

Step(t) ==
    /\ proc' = t
    /\ events' = events \o Observed(proc, t)
    /\ UNCHANGED start

Init ==
    /\ \E environ \in Environs, limits \in StartLimits :
         /\ proc = InitProc(environ, limits)
         /\ start = [environ |-> environ, rlimit_as |-> limits.rlimit_as,
                     rlimit_nproc |-> limits.rlimit_nproc]
    /\ events = <<>>

Read == proc.pc = "read" /\ Step(ReadEnviron(proc))

Memory == proc.pc = "memory" /\ \E os \in SetrlimitResults : Step(SetMemoryLimit(proc, os))

Process == proc.pc = "process" /\ \E os \in SetrlimitResults : Step(SetProcessLimit(proc, os))

Check == proc.pc = "check" /\ Step(CheckExecArgs(proc))

Parse == proc.pc = "parse" /\ Step(ParseExecArgs(proc))

Take == proc.pc = "index" /\ Step(TakeCommand(proc))

Scrub == proc.pc = "scrub" /\ Step(ScrubEnviron(proc))

Exec == proc.pc = "exec" /\ \E os \in ExecResults : Step(ExecCommand(proc, os))

Next == Read \/ Memory \/ Process \/ Check \/ Parse \/ Take \/ Scrub \/ Exec

Spec == Init /\ [][Next]_vars

\* ------------------------------------------------------------------------
\* Properties
\* ------------------------------------------------------------------------

Done == proc.pc = "done"

\* The value a variable had when the process started (None if absent).
AtStart(name) == environ_get(start.environ, name)

LastMsg == IF proc.stderr = <<>> THEN Msg("", "", PyNone)
           ELSE proc.stderr[Len(proc.stderr)]

Logged(text) == \E i \in 1..Len(proc.stderr) : proc.stderr[i].text = text

\* STONEBOX_EXEC_ARGS at start, decoded
ArgsDecoded == json_loads(AtStart(EXEC_ARGS).s)

\* a non-empty list of str
IsArgv(x) ==
    /\ x.ty = "list"
    /\ x.items # <<>>
    /\ \A i \in 1..Len(x.items) : x.items[i].ty = "str"

\* a decimal integer string denoting a positive number
IsPositiveDecimal(cs) ==
    /\ cs # <<>>
    /\ \A i \in 1..Len(cs) : IsDigit(cs[i])
    /\ DigitsValue(cs, 0) > 0

\* C1: every run ends by replacing the process image or by exiting with
\* status 120, 121, 126 or 127; never with another status or an uncaught
\* exception.
C1_DefinedOutcome ==
    Done => \/ proc.outcome = "exec"
            \/ /\ proc.outcome = "exit"
               /\ proc.status \in {120, 121, 126, 127}
               /\ proc.uncaught = ""

\* C2: with STONEBOX_EXEC_ARGS absent or empty, whatever the limit variables
\* hold, nothing is parsed, no variable is removed and exec is not called,
\* and the run ends with the "not set" diagnostic and status 120.
C2_MissingArgsExit120 ==
    ~Truthy(AtStart(EXEC_ARGS)) =>
        /\ proc.command_parts = Unbound
        /\ proc.environ = start.environ
        /\ ~proc.exec_called
        /\ Done => /\ proc.outcome = "exit"
                   /\ proc.status = 120
                   /\ LastMsg = Msg("STONEBOX_EXEC_ARGS not set.", "", PyNone)
                   /\ events \in {<<"exit">>, <<"rlimit_as", "exit">>,
                                  <<"rlimit_nproc", "exit">>,
                                  <<"rlimit_as", "rlimit_nproc", "exit">>}

C2_Witness ==
    /\ Done
    /\ AtStart(EXEC_ARGS) = PyStr(<<>>)
    /\ proc.status = 120
    /\ proc.rlimit_as # start.rlimit_as
    /\ Logged("Failed to set process limit")

\* C3: with STONEBOX_EXEC_ARGS non-empty and rejected by the JSON decoder,
\* the run logs the decoder's error and ends with status 121; exec is never
\* called.
C3_BadJsonExit121 ==
    (Truthy(AtStart(EXEC_ARGS)) /\ ArgsDecoded.exc # "") =>
        /\ ~proc.exec_called
        /\ Done => /\ proc.outcome = "exit"
                   /\ proc.status = 121
                   /\ LastMsg = Msg("Failed to parse STONEBOX_EXEC_ARGS",
                                    "JSONDecodeError", PyNone)

C3_Witness ==
    /\ Done
    /\ AtStart(EXEC_ARGS) = PyStr(<<"n", "o", "t", " ", "j">>)
    /\ proc.status = 121

\* C4: with STONEBOX_EXEC_ARGS decoding to anything but a non-empty list of
\* strings, the run ends with status 121 and exec is never called.
C4_WrongShapeExit121 ==
    (Truthy(AtStart(EXEC_ARGS)) /\ ArgsDecoded.exc = "" /\ ~IsArgv(ArgsDecoded.val)) =>
        /\ ~proc.exec_called
        /\ Done => (proc.outcome = "exit" /\ proc.status = 121)

\* Two runs ended alike: same outcome and status, and exec, if called, was
\* given the same arguments and environment.
SameEnding(a, b) ==
    /\ a.outcome = b.outcome
    /\ a.status = b.status
    /\ a.uncaught = b.uncaught
    /\ a.actual_args = b.actual_args
    /\ a.exec_called = b.exec_called
    /\ a.exec_called => a.environ = b.environ

\* The start environment without the two limit variables.
WithoutLimits == environ_del(environ_del(start.environ, MEMORY_LIMIT_MB), PROCESS_LIMIT)

\* The run from the same start with both limit variables absent and the
\* same answer to execve.
RunWithoutLimits ==
    set_limits_and_exec(InitProc(WithoutLimits, start), "ok",
                        IF proc.exec_result = "none" THEN "ok" ELSE proc.exec_result)

\* C5: no value of the limit variables and no failure of setrlimit ends the
\* run: a limit diagnostic is never the last word before an exit, and the run ends
\* as it ends with both limit variables absent (same STONEBOX_EXEC_ARGS,
\* same answer to execve).
C5_LimitsNonFatal ==
    /\ proc.pc \in {"read", "memory", "process", "check"} => proc.outcome = "running"
    /\ proc.outcome = "exit" => LastMsg.text \notin {"Failed to set memory limit",
                                                      "Failed to set process limit"}
    /\ Done => SameEnding(proc, RunWithoutLimits)

C5_Witness ==
    /\ Done
    /\ proc.outcome = "exec"
    /\ AtStart(MEMORY_LIMIT_MB) = PyStr(<<"x">>)
    /\ PROCESS_LIMIT \in DOMAIN start.environ
    /\ Logged("Failed to set memory limit")
    /\ Logged("Failed to set process limit")

\* C6: when exec is called the environment holds none of the three
\* STONEBOX variables and every other variable as at start.
C6_ScrubbedAtExec ==
    proc.exec_called =>
        proc.environ = [k \in (DOMAIN start.environ) \ StoneboxNames |-> start.environ[k]]

C6_Witness ==
    /\ proc.exec_called
    /\ proc.outcome = "exec"
    /\ MEMORY_LIMIT_MB \in DOMAIN start.environ
    /\ PROCESS_LIMIT \notin DOMAIN start.environ
    /\ proc.environ = OtherEnviron

MiB(n) == Limit(rlim_t(n * 1024 * 1024))

\* C7 as stated: for every positive decimal N in STONEBOX_MEMORY_LIMIT_MB,
\* the target starts under an address-space limit of N * 1024 * 1024 bytes,
\* soft and hard.
C7_LimitAlwaysInForce ==
    (proc.outcome = "exec" /\ IsPositiveDecimal(AtStart(MEMORY_LIMIT_MB).s)) =>
        proc.rlimit_as = MiB(DigitsValue(AtStart(MEMORY_LIMIT_MB).s, 0))

\* C7, amended: the same unless setrlimit refused the value, in which case a
\* memory-limit diagnostic was logged and the limit is the one at start.
C7_LimitInForceUnlessRefused ==
    (proc.outcome = "exec" /\ IsPositiveDecimal(AtStart(MEMORY_LIMIT_MB).s)) =>
        IF Logged("Failed to set memory limit")
        THEN proc.rlimit_as = start.rlimit_as
        ELSE proc.rlimit_as = MiB(DigitsValue(AtStart(MEMORY_LIMIT_MB).s, 0))

C7_Witness ==
    /\ proc.outcome = "exec"
    /\ AtStart(MEMORY_LIMIT_MB) = PyStr(<<"1", "2">>)
    /\ proc.rlimit_as = [soft |-> <<0, 12582912>>, hard |-> <<0, 12582912>>]
    /\ start.rlimit_as = Limit(rlim_t(4096))

\* C8: with a non-empty list of strings, a failed exec ends the run with
\* "Command not found: <program>" and status 127 when the program was not
\* found, and with the error logged and status 126 for any other failure.
C8_ExecFailureStatus ==
    (Truthy(AtStart(EXEC_ARGS)) /\ IsArgv(proc.command_parts)
       /\ proc.exec_called /\ proc.outcome # "exec") =>
        /\ proc.outcome = "exit"
        /\ IF proc.exec_result = "FileNotFoundError"
           THEN /\ proc.status = 127
                /\ LastMsg = Msg("Command not found", "", ArgsDecoded.val.items[1])
           ELSE /\ proc.status = 126
                /\ LastMsg.text = "Failed to exec command"
                /\ LastMsg.exc # ""
                /\ proc.exec_result # "none" => LastMsg.exc = proc.exec_result

C8_Witness ==
    /\ proc.exec_called
    /\ proc.exec_result = "FileNotFoundError"
    /\ proc.status = 127
    /\ Len(proc.command_parts.items) = 2

Rank(e) ==
    CASE e = "rlimit_as" -> 1
      [] e = "rlimit_nproc" -> 2
      [] e = "parse" -> 3
      [] e = "environ" -> 4
      [] e = "exec" -> 5
      [] e = "exit" -> 6

Happened(e) == \E i \in 1..Len(events) : events[i] = e

\* C9: what the run does is in the order address-space limit, process-count
\* limit, parsing, removal of the variables, exec, exit, each at most once;
\* exec comes only after parsing and removal, and nothing but the exit
\* follows an exec attempt, nothing an exit.
C9_LinearOrder ==
    /\ \A i, j \in 1..Len(events) : i < j => Rank(events[i]) < Rank(events[j])
    /\ Happened("exec") => Happened("environ")
    /\ Happened("environ") => Happened("parse")
    /\ Done <=> (Happened("exit") \/ proc.outcome = "exec")

C9_Witness ==
    events = <<"rlimit_as", "rlimit_nproc", "parse", "environ", "exec", "exit">>

\* int() rejects the text, or there is none
Unusable(x) == ~Truthy(x) \/ ~int(x.s).ok

\* C10: a limit variable that is absent, empty or not an integer leaves its
\* limit as at start, and neither variable touches the other's limit.
C10_OwnLimitOnly ==
    /\ Unusable(AtStart(MEMORY_LIMIT_MB)) => proc.rlimit_as = start.rlimit_as
    /\ Unusable(AtStart(PROCESS_LIMIT)) => proc.rlimit_nproc = start.rlimit_nproc
    /\ \/ proc.rlimit_as = start.rlimit_as
       \/ proc.rlimit_as = Limit(rlim_t(int(AtStart(MEMORY_LIMIT_MB).s).val * 1024 * 1024))
    /\ \/ proc.rlimit_nproc = start.rlimit_nproc
       \/ proc.rlimit_nproc = Limit(rlim_t(int(AtStart(PROCESS_LIMIT).s).val))

C10_Witness ==
    /\ Done
    /\ AtStart(MEMORY_LIMIT_MB) = PyStr(<<"1", ".", "5">>)
    /\ AtStart(PROCESS_LIMIT) = PyStr(<<"-", "1">>)
    /\ proc.rlimit_as = start.rlimit_as
    /\ proc.rlimit_nproc = Limit(RLIM_INFINITY)
    /\ start.rlimit_nproc = Limit(rlim_t(64))

====
